---- MODULE Spec2Model ----
(***************************************************************************)
(* Model of the Tor Browser release downloader (main.go): the listing      *)
(* fetch, link extraction, directory filter, per-file download and the     *)
(* orchestration in init/main.                                             *)
(*                                                                         *)
(* Strings are sequences of one-character strings, so that prefix, suffix, *)
(* extension and path computations are carried out as the library does.    *)
(* File contents and response bodies are sequences of bytes.               *)
(***************************************************************************)
EXTENDS Integers, Sequences, FiniteSets, TLC

VARIABLES
    pc,          \* position of the process: see the steps of init/main below
    run,         \* number of the current program run (1 = first invocation)
    argVersion,  \* value of the -version flag on the command line
    torVersion,  \* the global torVersion
    listing,     \* the document the server would serve for the listing page
    node,        \* main's node (result of fetchHTML)
    links,       \* main's links
    files,       \* main's files
    idx,         \* position of the range loop over files (1-based, next file)
    fs,          \* the local file system: cleaned path -> entry
    requests,    \* every HTTP GET issued so far, in order
    invoked,     \* file names downloadFile was invoked with in this run
    call,        \* the last downloadFile invocation and what it returned
    ncalls,      \* number of downloadFile invocations so far
    stderr,      \* per-file errors printed by main in this run
    summary,     \* the completion summary was printed in this run
    exitCode,    \* exit status of this run ("running" until the process ends)
    runStart,    \* the file system as it was when this run started
    input,       \* argument of the function under test (function harnesses)
    output       \* its result

vars == <<pc, run, argVersion, torVersion, listing, node, links, files, idx, fs,
          requests, invoked, call, ncalls, stderr, summary, exitCode, runStart,
          input, output>>

-----------------------------------------------------------------------------
(* Bounds of the model *)

\* number of successive program runs against the same directory
MaxRuns == 2
\* number of downloadFile invocations in the downloader harness
MaxCalls == 2
\* length of the link sequences given to filterFiles in its harness
MaxLen == 3
\* number of nodes of the document trees given to extractLinks in its harness
MaxNodes == 4

-----------------------------------------------------------------------------
(* Strings *)

S_slash == <<"/">>
S_subdirAbs == <<"/","s","u","b","/">>
S_subdirRel == <<"s","u","b","/">>
S_readme == <<"r","e","a","d","m","e",".","t","x","t">>
S_dotReadme == <<".","/","r","e","a","d","m","e",".","t","x","t">>
S_mar == <<"a","p","p",".","v","1",".","2",".","m","a","r">>
S_rar == <<"a","r","c","h","i","v","e",".","r","a","r">>
S_dmg == <<"i","m","a","g","e",".","D","M","G">>
S_nested == <<"s","u","b","/","n","o","t","e","s",".","t","x","t">>
S_empty == <<>>

\* the default of the -version flag
S_defaultVersion == <<"1","4",".","5",".","1">>

S_distRoot ==
    <<"h","t","t","p","s",":","/","/","d","i","s","t",".","t","o","r","p","r",
      "o","j","e","c","t",".","o","r","g","/","t","o","r","b","r","o","w","s",
      "e","r","/">>

Upper == <<"A","B","C","D","E","F","G","H","I","J","K","L","M",
           "N","O","P","Q","R","S","T","U","V","W","X","Y","Z">>
Lower == <<"a","b","c","d","e","f","g","h","i","j","k","l","m",
           "n","o","p","q","r","s","t","u","v","w","x","y","z">>

ToLowerChar(c) ==
    IF \E k \in DOMAIN Upper : Upper[k] = c
    THEN Lower[CHOOSE k \in DOMAIN Upper : Upper[k] = c]
    ELSE c

ToLower(s) == [k \in 1..Len(s) |-> ToLowerChar(s[k])]

HasPrefix(s, p) == Len(s) >= Len(p) /\ SubSeq(s, 1, Len(p)) = p

HasSuffix(s, p) == Len(s) >= Len(p) /\ SubSeq(s, Len(s) - Len(p) + 1, Len(s)) = p

\* filepath.Ext: the suffix beginning at the final dot of the final path element
RECURSIVE ExtFrom(_, _)
ExtFrom(path, k) ==
    IF k < 1 \/ path[k] = "/" THEN <<>>
    ELSE IF path[k] = "." THEN SubSeq(path, k, Len(path))
    ELSE ExtFrom(path, k - 1)

Ext(path) == ExtFrom(path, Len(path))

\* the path elements between separators, empty elements included
RECURSIVE SplitSlash(_, _, _)
SplitSlash(s, k, cur) ==
    IF k > Len(s) THEN <<cur>>
    ELSE IF s[k] = "/" THEN <<cur>> \o SplitSlash(s, k + 1, <<>>)
    ELSE SplitSlash(s, k + 1, Append(cur, s[k]))

\* filepath.Clean on the elements: "" and "." dropped, ".." removes the element
\* before it (kept at the start of a relative path, dropped at a root)
RECURSIVE Resolve(_, _, _, _)
Resolve(elems, k, acc, rooted) ==
    IF k > Len(elems) THEN acc
    ELSE LET e == elems[k] IN
         IF e = <<>> \/ e = <<".">> THEN Resolve(elems, k + 1, acc, rooted)
         ELSE IF e = <<".", ".">>
              THEN IF acc # <<>> /\ acc[Len(acc)] # <<".", ".">>
                   THEN Resolve(elems, k + 1, SubSeq(acc, 1, Len(acc) - 1), rooted)
                   ELSE IF rooted THEN Resolve(elems, k + 1, acc, rooted)
                   ELSE Resolve(elems, k + 1, Append(acc, e), rooted)
              ELSE Resolve(elems, k + 1, Append(acc, e), rooted)

RECURSIVE JoinSlash(_)
JoinSlash(elems) ==
    IF elems = <<>> THEN <<>>
    ELSE IF Len(elems) = 1 THEN elems[1]
    ELSE elems[1] \o S_slash \o JoinSlash(Tail(elems))

Clean(path) ==
    LET rooted == HasPrefix(path, S_slash)
        elems == Resolve(SplitSlash(path, 1, <<>>), 1, <<>>, rooted)
    IN  IF rooted THEN S_slash \o JoinSlash(elems)
        ELSE IF elems = <<>> THEN <<".">>
        ELSE JoinSlash(elems)

\* filepath.Join of two elements: empty elements ignored, the result cleaned
Join(a, b) ==
    IF a = <<>> /\ b = <<>> THEN <<>>
    ELSE IF a = <<>> THEN Clean(b)
    ELSE IF b = <<>> THEN Clean(a)
    ELSE Clean(a \o S_slash \o b)

\* filepath.Dir of a cleaned path
ParentDir(path) ==
    LET rooted == HasPrefix(path, S_slash)
        elems == Resolve(SplitSlash(path, 1, <<>>), 1, <<>>, rooted)
        up == IF elems = <<>> THEN <<>> ELSE SubSeq(elems, 1, Len(elems) - 1)
    IN  IF rooted THEN S_slash \o JoinSlash(up)
        ELSE IF up = <<>> THEN <<".">>
        ELSE JoinSlash(up)

-----------------------------------------------------------------------------
(* filterFiles *)

RECURSIVE filterLoop(_, _, _)

\* a plausible slip: only the leading separator is looked at
filterLoop_prefixOnly(ls, k, acc) ==
    IF k > Len(ls) THEN acc
    ELSE IF HasPrefix(ls[k], S_slash)
         THEN filterLoop(ls, k + 1, acc)
         ELSE filterLoop(ls, k + 1, Append(acc, ls[k]))

\* the range loop of filterFiles, acc being the slice files
filterLoop(ls, k, acc) ==
    IF k > Len(ls) THEN acc
    ELSE IF HasPrefix(ls[k], S_slash) \/ HasSuffix(ls[k], S_slash)
         THEN filterLoop(ls, k + 1, acc)
         ELSE filterLoop(ls, k + 1, Append(acc, ls[k]))

filterFiles(ls) == filterLoop(ls, 1, <<>>)

-----------------------------------------------------------------------------
(* Document trees (html.Node) and extractLinks *)

\* the nil *html.Node
NilNode == [Type |-> "nil", Data |-> "", Attr |-> <<>>, Kids |-> <<>>]

\* Kids is the chain FirstChild, NextSibling, NextSibling, ...
MkNode(type, data, attr, kids) ==
    [Type |-> type, Data |-> data, Attr |-> attr, Kids |-> kids]

\* the range loop over n.Attr
RECURSIVE attrLoop(_, _, _)
attrLoop(attrs, k, acc) ==
    IF k > Len(attrs) THEN acc
    ELSE IF attrs[k].Key = "href"
         THEN attrLoop(attrs, k + 1, Append(acc, attrs[k].Val))
         ELSE attrLoop(attrs, k + 1, acc)

RECURSIVE f(_, _)
RECURSIVE childLoop(_, _, _)

\* a plausible slip: the children are walked before the node itself
f_childrenFirst(n, acc) ==
    LET below == childLoop(n.Kids, 1, acc)
    IN  IF n.Type = "ElementNode" /\ n.Data = "a"
        THEN attrLoop(n.Attr, 1, below)
        ELSE below

\* the closure f of extractLinks, with the captured slice links as accumulator
f(n, acc) ==
    LET own == IF n.Type = "ElementNode" /\ n.Data = "a"
               THEN attrLoop(n.Attr, 1, acc)
               ELSE acc
    IN  childLoop(n.Kids, 1, own)

\* for c := n.FirstChild; c != nil; c = c.NextSibling { f(c) }
childLoop(kids, k, acc) ==
    IF k > Len(kids) THEN acc
    ELSE childLoop(kids, k + 1, f(kids[k], acc))

\* f(n) reads n.Type first: on the nil node that is a nil pointer dereference,
\* a run-time panic
extractLinks(n) ==
    IF n = NilNode
    THEN [panicked |-> TRUE, links |-> <<>>]
    ELSE [panicked |-> FALSE, links |-> f(n, <<>>)]

-----------------------------------------------------------------------------
(* The local file system: a function from cleaned paths to entries.  The   *)
(* working directory "." always exists.                                    *)

DirEntry == [kind |-> "dir", data |-> <<>>]
FileEntry(bytes) == [kind |-> "file", data |-> bytes]

EmptyFS == [p \in {} |-> DirEntry]

WithEntry(fsys, p, e) ==
    [q \in (DOMAIN fsys) \cup {p} |-> IF q = p THEN e ELSE fsys[q]]

IsDirAt(fsys, p) == p = <<".">> \/ (p \in DOMAIN fsys /\ fsys[p].kind = "dir")

\* os.Stat followed by !info.IsDir()
fileExists_never(fsys, filename) == FALSE

fileExists(fsys, filename) ==
    LET p == Clean(filename)
    IN  IF filename = <<>> \/ p = <<".">> \/ p \notin DOMAIN fsys
        THEN FALSE
        ELSE fsys[p].kind # "dir"

\* os.MkdirAll: nil when the path is a directory already, an error when a
\* file is in the way or the system refuses (permOK = FALSE), else the
\* directory and its missing parents are created
RECURSIVE MkdirAll(_, _, _)
MkdirAll(fsys, path, permOK) ==
    IF path = <<>> THEN [err |-> TRUE, fs |-> fsys]
    ELSE LET p == Clean(path) IN
         IF IsDirAt(fsys, p) THEN [err |-> FALSE, fs |-> fsys]
         ELSE IF p \in DOMAIN fsys THEN [err |-> TRUE, fs |-> fsys]
         ELSE LET up == MkdirAll(fsys, ParentDir(p), permOK) IN
              IF up.err \/ ~permOK THEN [err |-> TRUE, fs |-> fsys]
              ELSE [err |-> FALSE, fs |-> WithEntry(up.fs, p, DirEntry)]

\* os.Create: the file is created or truncated; an error when the parent is
\* no directory, the path is a directory, or the system refuses
Create(fsys, path, permOK) ==
    LET p == Clean(path) IN
    IF path = <<>> \/ ~IsDirAt(fsys, ParentDir(p)) \/ IsDirAt(fsys, p) \/ ~permOK
    THEN [err |-> TRUE, fs |-> fsys]
    ELSE [err |-> FALSE, fs |-> WithEntry(fsys, p, FileEntry(<<>>))]

-----------------------------------------------------------------------------
(* The network and the environment of one downloadFile invocation *)

StatusOK == 200

Body200 == <<1, 2>>
Body404 == <<4>>
StaleBytes == <<9>>

NoResp == [err |-> TRUE, status |-> 0, body |-> <<>>]

\* what http.Get of a file URL can give: an error, or a response of any status
FileResponses ==
    { NoResp,
      [err |-> FALSE, status |-> StatusOK, body |-> Body200],
      [err |-> FALSE, status |-> 404, body |-> Body404] }

\* resp: the outcome of http.Get; mkdirOK, createOK: whether the system lets
\* MkdirAll and Create through; copyErr, wrote: whether io.Copy fails and how
\* many bytes of the body reached the file
MkEnv(resp, mkdirOK, createOK, copyErr, wrote) ==
    [resp |-> resp, mkdirOK |-> mkdirOK, createOK |-> createOK,
     copyErr |-> copyErr, wrote |-> wrote]

\* the environments of one invocation; what follows the first failure is
\* never consulted and is fixed
Envs ==
    {MkEnv(NoResp, TRUE, TRUE, FALSE, 0)}
    \cup UNION { { MkEnv(r, FALSE, TRUE, FALSE, Len(r.body)),
                   MkEnv(r, TRUE, FALSE, FALSE, Len(r.body)),
                   MkEnv(r, TRUE, TRUE, FALSE, Len(r.body)) }
                 \cup { MkEnv(r, TRUE, TRUE, TRUE, n) : n \in 0..Len(r.body) } :
                 r \in FileResponses \ {NoResp} }

NoEnv == MkEnv(NoResp, TRUE, TRUE, FALSE, 0)

-----------------------------------------------------------------------------
(* downloadFile *)

allowedExts ==
    << <<".","a","s","c">>,
       <<".","a","s","c","-","m","a","1">>,
       <<".","a","s","c","-","p","i","e","r","o","v">>,
       <<".","a","p","k">>,
       <<".","b","s","p","a","t","c","h">>,
       <<".","d","m","g">>,
       <<".","e","x","e">>,
       <<".","g","z">>,
       <<".","i","d","s","i","g">>,
       <<".","m","a","r">>,
       <<".","t","x","t">>,
       <<".","z","i","p">>,
       <<".","x","z">> >>

\* a plausible slip: any file with an extension passes
allowed_anyExt(fileName) == Ext(fileName) # <<>>

\* the inline extension check
allowed(fileName) ==
    LET ext == ToLower(Ext(fileName))
    IN  \E k \in DOMAIN allowedExts : ext = allowedExts[k]

\* a plausible slip: a non-200 response is reported as a failed download
respRejected_non200(resp) == resp.err \/ resp.status # StatusOK

\* err != nil after http.Get: the status of the response is not looked at
respRejected(resp) == resp.err

\* a plausible slip: the copy stops one byte short and reports no error
copied_short(body, env) ==
    IF env.copyErr \/ body = <<>> THEN SubSeq(body, 1, env.wrote)
    ELSE SubSeq(body, 1, Len(body) - 1)

\* io.Copy(outFile, resp.Body): the bytes that reach the file
copied(body, env) == SubSeq(body, 1, env.wrote)

\* the result of one invocation in file system fsys under environment env:
\* the new file system, the GETs issued, the returned error and the notice
dlResult(fsys, baseURL, fileName, outDir, env) ==
    IF ~allowed(fileName)
    THEN [fs |-> fsys, gets |-> <<>>, ret |-> "nil", notice |-> "skip-ext"]
    ELSE
    LET outPath == Join(outDir, fileName) IN
    IF fileExists(fsys, outPath)
    THEN [fs |-> fsys, gets |-> <<>>, ret |-> "nil", notice |-> "skip-exists"]
    ELSE
    LET url == baseURL \o fileName IN
    IF respRejected(env.resp)
    THEN [fs |-> fsys, gets |-> <<url>>, ret |-> "download", notice |-> "none"]
    ELSE
    LET mk == MkdirAll(fsys, outDir, env.mkdirOK) IN
    IF mk.err
    THEN [fs |-> fsys, gets |-> <<url>>, ret |-> "mkdir", notice |-> "none"]
    ELSE
    LET cr == Create(mk.fs, outPath, env.createOK) IN
    IF cr.err
    THEN [fs |-> mk.fs, gets |-> <<url>>, ret |-> "create", notice |-> "none"]
    ELSE
    LET done == WithEntry(cr.fs, Clean(outPath),
                          FileEntry(copied(env.resp.body, env))) IN
    IF env.copyErr
    THEN [fs |-> done, gets |-> <<url>>, ret |-> "copy", notice |-> "none"]
    ELSE [fs |-> done, gets |-> <<url>>, ret |-> "nil", notice |-> "downloaded"]

NoCall == [fileName |-> <<>>, outDir |-> <<>>, baseURL |-> <<>>, env |-> NoEnv,
           ret |-> "nil", notice |-> "none"]

\* one invocation of downloadFile, as a step of the process; an invocation
\* that returns before http.Get consults no environment
downloadFile(baseURL, fileName, outDir) ==
    \E env \in IF dlResult(fs, baseURL, fileName, outDir, NoEnv).gets = <<>>
                THEN {NoEnv} ELSE Envs :
      \E r \in {dlResult(fs, baseURL, fileName, outDir, env)} :
        /\ fs' = r.fs
        /\ requests' = requests \o r.gets
        /\ call' = [fileName |-> fileName, outDir |-> outDir,
                    baseURL |-> baseURL,
                    env |-> IF r.gets = <<>> THEN NoEnv ELSE env,
                    ret |-> r.ret, notice |-> r.notice]
        /\ ncalls' = ncalls + 1

-----------------------------------------------------------------------------
(* The listing pages the server may hold, as html.Parse builds them:       *)
(* document, html, head and body, the anchors inside the body.             *)

Href(val) == [Key |-> "href", Val |-> val]

Anchor(val) == MkNode("ElementNode", "a", <<Href(val)>>, <<MkNode("TextNode", "x", <<>>, <<>>)>>)

RECURSIVE Anchors(_)
Anchors(hrefs) ==
    IF hrefs = <<>> THEN <<>> ELSE <<Anchor(Head(hrefs))>> \o Anchors(Tail(hrefs))

ListingDoc(hrefs) ==
    MkNode("DocumentNode", "", <<>>,
      << MkNode("ElementNode", "html", <<>>,
           << MkNode("ElementNode", "head", <<>>, <<>>),
              MkNode("ElementNode", "body", <<>>, Anchors(hrefs)) >>) >>)

Listings ==
    { ListingDoc(<<S_subdirAbs, S_readme, S_mar>>),
      ListingDoc(<<S_rar, S_dmg, S_mar>>),
      ListingDoc(<<S_readme, S_dotReadme>>),
      ListingDoc(<<S_subdirRel, S_nested>>),
      ListingDoc(<<>>) }

Versions == {S_defaultVersion, S_empty}

\* the working directory before the first run
StartFSs ==
    { EmptyFS,
      WithEntry(EmptyFS, S_defaultVersion, DirEntry),
      WithEntry(WithEntry(EmptyFS, S_defaultVersion, DirEntry),
                Join(S_defaultVersion, S_readme), FileEntry(StaleBytes)),
      WithEntry(EmptyFS, S_defaultVersion, FileEntry(StaleBytes)) }

-----------------------------------------------------------------------------
(* The program: init, then main *)

Init ==
    /\ pc = "init"
    /\ run = 1
    /\ argVersion \in Versions
    /\ torVersion = S_defaultVersion
    /\ listing \in Listings
    /\ node = NilNode
    /\ links = <<>>
    /\ files = <<>>
    /\ idx = 1
    /\ fs \in StartFSs
    /\ requests = <<>>
    /\ invoked = <<>>
    /\ call = NoCall
    /\ ncalls = 0
    /\ stderr = <<>>
    /\ summary = FALSE
    /\ exitCode = "running"
    /\ runStart = fs
    /\ input = <<>>
    /\ output = <<>>

\* init(): flag.Parse, torVersion = *version, os.MkdirAll(torVersion);
\* log.Fatalln on error ends the process with status 1
InitStep ==
    /\ pc = "init"
    /\ torVersion' = argVersion
    /\ \E permOK \in BOOLEAN :
         LET mk == MkdirAll(fs, argVersion, permOK) IN
         IF mk.err
         THEN /\ pc' = "exited"
              /\ exitCode' = 1
              /\ fs' = fs
         ELSE /\ pc' = "main"
              /\ exitCode' = exitCode
              /\ fs' = mk.fs
    /\ UNCHANGED <<run, argVersion, listing, node, links, files, idx, requests,
                   invoked, call, ncalls, stderr, summary, runStart, input, output>>

baseURL == S_distRoot \o torVersion \o S_slash

\* fetchHTML(baseURL): nil on a network error, a non-200 status or a parse
\* failure, else the root of the parsed page
FetchStep ==
    /\ pc = "main"
    /\ requests' = Append(requests, baseURL)
    /\ \E outcome \in {"neterr", "non200", "parsefail", "ok"} :
         node' = IF outcome = "ok" THEN listing ELSE NilNode
    /\ pc' = "extract"
    /\ UNCHANGED <<run, argVersion, torVersion, listing, links, files, idx, fs,
                   invoked, call, ncalls, stderr, summary, exitCode, runStart,
                   input, output>>

\* links := extractLinks(node); files := filterFiles(links).  A panic ends
\* the process with status 2, nothing more being printed to stdout.
ExtractStep ==
    /\ pc = "extract"
    /\ LET r == extractLinks(node) IN
       IF r.panicked
       THEN /\ pc' = "exited"
            /\ exitCode' = 2
            /\ UNCHANGED <<links, files>>
       ELSE /\ pc' = "loop"
            /\ exitCode' = exitCode
            /\ links' = r.links
            /\ files' = filterFiles(r.links)
    /\ idx' = 1
    /\ UNCHANGED <<run, argVersion, torVersion, listing, node, fs, requests,
                   invoked, call, ncalls, stderr, summary, runStart, input, output>>

\* a plausible slip: the loop is left at the first per-file error
DownloadStep_breakOnError ==
    /\ pc = "loop"
    /\ idx <= Len(files)
    /\ downloadFile(baseURL, files[idx], torVersion)
    /\ invoked' = Append(invoked, files[idx])
    /\ stderr' = IF call'.ret # "nil" THEN Append(stderr, call'.ret) ELSE stderr
    /\ idx' = IF call'.ret # "nil" THEN Len(files) + 1 ELSE idx + 1
    /\ UNCHANGED <<pc, run, argVersion, torVersion, listing, node, links, files,
                   summary, exitCode, runStart, input, output>>

\* one iteration of the range loop: downloadFile, the error printed to stderr
DownloadStep ==
    /\ pc = "loop"
    /\ idx <= Len(files)
    /\ downloadFile(baseURL, files[idx], torVersion)
    /\ invoked' = Append(invoked, files[idx])
    /\ stderr' = IF call'.ret # "nil" THEN Append(stderr, call'.ret) ELSE stderr
    /\ idx' = idx + 1
    /\ UNCHANGED <<pc, run, argVersion, torVersion, listing, node, links, files,
                   summary, exitCode, runStart, input, output>>

\* the loop is over: the summary is printed and main returns (status 0)
Finish ==
    /\ pc = "loop"
    /\ idx > Len(files)
    /\ summary' = TRUE
    /\ exitCode' = 0
    /\ pc' = "exited"
    /\ UNCHANGED <<run, argVersion, torVersion, listing, node, links, files, idx,
                   fs, requests, invoked, call, ncalls, stderr, runStart,
                   input, output>>

\* the program is started again with the same flag, in the same directory:
\* a new process, whose globals and locals start afresh
NextRun ==
    /\ pc = "exited"
    /\ run < MaxRuns
    /\ run' = run + 1
    /\ pc' = "init"
    /\ torVersion' = S_defaultVersion
    /\ node' = NilNode
    /\ links' = <<>>
    /\ files' = <<>>
    /\ idx' = 1
    /\ requests' = <<>>
    /\ invoked' = <<>>
    /\ stderr' = <<>>
    /\ summary' = FALSE
    /\ exitCode' = "running"
    /\ runStart' = fs
    /\ UNCHANGED <<argVersion, listing, fs, call, ncalls, input, output>>

Next ==
    \/ InitStep
    \/ FetchStep
    \/ ExtractStep
    \/ DownloadStep
    \/ Finish
    \/ NextRun

Spec == Init /\ [][Next]_vars

-----------------------------------------------------------------------------
(* downloadFile on its own: any file names, in any order, against output   *)
(* directories in any condition                                            *)

DLNames == {S_readme, S_dotReadme, S_rar, S_dmg, S_nested}

DLStartFSs ==
    { EmptyFS,
      WithEntry(EmptyFS, S_defaultVersion, DirEntry),
      WithEntry(WithEntry(EmptyFS, S_defaultVersion, DirEntry),
                Join(S_defaultVersion, S_readme), FileEntry(StaleBytes)),
      WithEntry(WithEntry(EmptyFS, S_defaultVersion, DirEntry),
                Join(S_defaultVersion, S_dmg), DirEntry) }

Idle ==
    /\ run = 1
    /\ argVersion = S_defaultVersion
    /\ torVersion = S_defaultVersion
    /\ listing = NilNode
    /\ node = NilNode
    /\ links = <<>>
    /\ files = <<>>
    /\ idx = 1
    /\ invoked = <<>>
    /\ stderr = <<>>
    /\ summary = FALSE
    /\ exitCode = "running"

InitDL ==
    /\ Idle
    /\ pc = "downloader"
    /\ fs \in DLStartFSs
    /\ runStart = fs
    /\ requests = <<>>
    /\ call = NoCall
    /\ ncalls = 0
    /\ input = <<>>
    /\ output = <<>>

CallDownloadFile ==
    /\ pc = "downloader"
    /\ ncalls < MaxCalls
    /\ \E fileName \in DLNames : downloadFile(baseURL, fileName, torVersion)
    /\ UNCHANGED <<pc, run, argVersion, torVersion, listing, node, links, files,
                   idx, invoked, stderr, summary, exitCode, runStart, input, output>>

NextDL == CallDownloadFile

SpecDL == InitDL /\ [][NextDL]_vars

-----------------------------------------------------------------------------
(* filterFiles on its own: every sequence of references up to MaxLen *)

FilterRefs ==
    {S_subdirAbs, S_subdirRel, S_readme, S_mar, S_rar, S_slash, S_empty,
     S_slash \o S_readme}

InitFilter ==
    /\ Idle
    /\ pc = "filter-call"
    /\ fs = EmptyFS
    /\ runStart = EmptyFS
    /\ requests = <<>>
    /\ call = NoCall
    /\ ncalls = 0
    /\ input \in UNION {[1..n -> FilterRefs] : n \in 0..MaxLen}
    /\ output = <<>>

ApplyFilterFiles ==
    /\ pc = "filter-call"
    /\ output' = filterFiles(input)
    /\ pc' = "filter-return"
    /\ UNCHANGED <<run, argVersion, torVersion, listing, node, links, files, idx,
                   fs, requests, invoked, call, ncalls, stderr, summary,
                   exitCode, runStart, input>>

NextFilter == ApplyFilterFiles

SpecFilter == InitFilter /\ [][NextFilter]_vars

-----------------------------------------------------------------------------
(* extractLinks on its own: every document tree of up to MaxNodes nodes    *)
(* over the node labels below                                              *)

NodeLabels ==
    { MkNode("ElementNode", "a", <<Href(S_readme)>>, <<>>),
      MkNode("ElementNode", "a",
             <<[Key |-> "class", Val |-> S_empty], Href(S_mar), Href(S_rar)>>, <<>>),
      MkNode("ElementNode", "a", <<[Key |-> "name", Val |-> S_dmg]>>, <<>>),
      MkNode("ElementNode", "div", <<Href(S_dmg)>>, <<>>) }

RECURSIVE TreesOfSize(_)
RECURSIVE ForestsOfSize(_)

\* the trees of exactly n nodes
TreesOfSize(n) ==
    { MkNode(l.Type, l.Data, l.Attr, kids) :
        l \in NodeLabels, kids \in ForestsOfSize(n - 1) }

\* the sequences of trees of m nodes in all
ForestsOfSize(m) ==
    IF m = 0 THEN {<<>>}
    ELSE UNION { { <<t>> \o rest : t \in TreesOfSize(k), rest \in ForestsOfSize(m - k) } :
                 k \in 1..m }

InitExtract ==
    /\ Idle
    /\ pc = "extract-call"
    /\ fs = EmptyFS
    /\ runStart = EmptyFS
    /\ requests = <<>>
    /\ call = NoCall
    /\ ncalls = 0
    /\ input \in UNION {TreesOfSize(n) : n \in 1..MaxNodes}
    /\ output = <<>>

ApplyExtractLinks ==
    /\ pc = "extract-call"
    /\ output' = extractLinks(input)
    /\ pc' = "extract-return"
    /\ UNCHANGED <<run, argVersion, torVersion, listing, node, links, files, idx,
                   fs, requests, invoked, call, ncalls, stderr, summary,
                   exitCode, runStart, input>>

NextExtract == ApplyExtractLinks

SpecExtract == InitExtract /\ [][NextExtract]_vars

-----------------------------------------------------------------------------
(* Notions the properties are stated in *)

RegularFileAt(fsys, p) == p \in DOMAIN fsys /\ fsys[p].kind = "file"

\* the lowercased name ends in one of the allowed suffixes; each of them is
\* a dot followed by characters that are neither dots nor separators, so
\* this is the final dotted extension being in the set
EndsWithAllowed(name) ==
    LET lower == ToLower(name)
    IN  \E k \in DOMAIN allowedExts : HasSuffix(lower, allowedExts[k])

IsFileURL(u) == u # baseURL

\* the GETs of this run other than the one for the listing page
FileGets == SelectSeq(requests, IsFileURL)

Invoked == ncalls' = ncalls + 1

\* the target path of the invocation a step makes
TargetPaths == {Join(call'.outDir, call'.fileName)}

\* the system let every local operation of the invocation through
LocalOpsSucceed(path) ==
    \E mk \in {MkdirAll(fs, call'.outDir, call'.env.mkdirOK)} :
        /\ ~mk.err
        /\ ~Create(mk.fs, path, call'.env.createOK).err
        /\ ~call'.env.copyErr

-----------------------------------------------------------------------------
(* C5: filterFiles *)

IsFileRef(ref) ==
    ~(ref # <<>> /\ (ref[1] = "/" \/ ref[Len(ref)] = "/"))

\* C5: for every input sequence, filterFiles returns exactly the subsequence
\* of the references that neither begin nor end with "/", order and
\* duplicates kept, whatever their extension.
C5_FilterIsSubsequence ==
    pc = "filter-return" => output = SelectSeq(input, IsFileRef)

\* the example of the specification, a duplicate, and a kept reference whose
\* extension is not an allowed one
C5_Witness ==
    /\ pc = "filter-return"
    /\ \/ /\ input = <<S_subdirAbs, S_readme, S_mar>>
          /\ output = <<S_readme, S_mar>>
       \/ /\ input = <<S_rar, S_subdirRel, S_rar>>
          /\ output = <<S_rar, S_rar>>

-----------------------------------------------------------------------------
(* C9: extractLinks *)

\* the positions of the nodes of a tree: the child indices from the root
RECURSIVE Positions(_)
Positions(t) ==
    {<<>>} \cup UNION { { <<k>> \o p : p \in Positions(t.Kids[k]) } : k \in DOMAIN t.Kids }

RECURSIVE NodeAt(_, _)
NodeAt(t, p) == IF p = <<>> THEN t ELSE NodeAt(t.Kids[Head(p)], Tail(p))

\* document order: an ancestor before its descendants, else by the first
\* child index that differs
Before(p, q) ==
    \/ Len(p) < Len(q) /\ SubSeq(q, 1, Len(p)) = p
    \/ \E k \in 1..Len(p) :
         /\ k <= Len(q)
         /\ SubSeq(p, 1, k - 1) = SubSeq(q, 1, k - 1)
         /\ p[k] < q[k]

InDocumentOrder(t) ==
    LET ps == Positions(t) IN
    [k \in 1..Cardinality(ps) |->
        CHOOSE p \in ps : Cardinality({q \in ps : Before(q, p)}) = k - 1]

IsHrefAttr(a) == a.Key = "href"

\* the href values a node contributes: those of an anchor element
HrefsOf(n) ==
    IF n.Type = "ElementNode" /\ n.Data = "a"
    THEN LET hs == SelectSeq(n.Attr, IsHrefAttr) IN [k \in 1..Len(hs) |-> hs[k].Val]
    ELSE <<>>

RECURSIVE Flatten(_, _, _)
Flatten(t, order, k) ==
    IF k > Len(order) THEN <<>>
    ELSE HrefsOf(NodeAt(t, order[k])) \o Flatten(t, order, k + 1)

\* C9: for every non-absent tree, extractLinks returns the href values of
\* exactly the anchor elements that carry an href, in document order
\* (depth-first, pre-order), duplicates kept; anchors without href and other
\* elements contribute nothing.
C9_ExtractInDocumentOrder ==
    pc = "extract-return" =>
        /\ ~output.panicked
        /\ output.links = Flatten(input, InDocumentOrder(input), 1)

\* a tree where pre-order differs from both breadth-first and post-order:
\* an anchor, below it an anchor with an anchor child, then a sibling
C9_Witness ==
    /\ pc = "extract-return"
    /\ Len(input.Kids) = 2
    /\ Len(input.Kids[1].Kids) = 1
    /\ output.links = <<S_readme, S_mar, S_rar, S_readme, S_mar, S_rar>>

-----------------------------------------------------------------------------
(* C3: an existing regular file is never fetched again nor overwritten *)

C3_Step ==
    /\ \A path \in TargetPaths :
          (Invoked /\ RegularFileAt(fs, path)) =>
              /\ requests' = requests
              /\ call'.ret = "nil"
              /\ fs' = fs
    /\ \A p \in DOMAIN fs :
          RegularFileAt(fs, p) => (p \in DOMAIN fs' /\ fs'[p] = fs[p])

\* C3: whenever downloadFile is invoked for a name whose target path holds a
\* regular file, it issues no request, returns no error and leaves the file
\* system as it is; no step ever changes a regular file that exists.
C3_NeverOverwrites == [][C3_Step]_vars

\* a file written by a first invocation, and skipped by the second one that
\* names it (by the same or by another spelling of the name)
C3_Witness ==
    /\ ncalls = 2
    /\ Len(requests) = 1
    /\ call.notice = "skip-exists"
    /\ RegularFileAt(fs, Join(call.outDir, call.fileName))
    /\ fs[Join(call.outDir, call.fileName)].data # StaleBytes

-----------------------------------------------------------------------------
(* C4: the extension gate *)

WrittenPaths ==
    { p \in DOMAIN fs :
        /\ fs[p].kind = "file"
        /\ (p \notin DOMAIN runStart \/ fs[p] # runStart[p]) }

C4_Step ==
    (Invoked /\ ~EndsWithAllowed(call'.fileName)) =>
        /\ requests' = requests
        /\ fs' = fs
        /\ call'.ret = "nil"

C4_State ==
    /\ \A k \in DOMAIN requests : EndsWithAllowed(requests[k])
    /\ \A p \in WrittenPaths : EndsWithAllowed(p)

\* C4: for a file name whose lowercased final extension is not an allowed
\* one, downloadFile issues no request, creates no file and returns no
\* error; in every reachable state every URL requested and every file
\* written ends in an allowed extension.
C4_ExtensionGate == [][C4_Step]_vars /\ []C4_State

\* a disallowed name skipped after an allowed one was downloaded
C4_Witness ==
    /\ ncalls = 2
    /\ call.fileName = S_rar
    /\ call.notice = "skip-ext"
    /\ Len(requests) = 1
    /\ WrittenPaths # {}

-----------------------------------------------------------------------------
(* C8: a successful download *)

C8_Success(path) ==
    /\ requests' = Append(requests, call'.baseURL \o call'.fileName)
    /\ IsDirAt(fs', Clean(call'.outDir))
    /\ RegularFileAt(fs', path)
    /\ fs'[path].data = call'.env.resp.body
    /\ call'.notice = "downloaded"
    /\ call'.ret = "nil"

\* C8 as stated: for an allowed name with nothing at its target path and a
\* server that answers, downloadFile issues exactly one GET to
\* <baseURL><fileName>, leaves the output directory in place and a file
\* there whose content is the response body, reports the download and
\* returns no error.
C8_Original ==
    [][\A path \in TargetPaths :
         (/\ Invoked
          /\ EndsWithAllowed(call'.fileName)
          /\ path \notin DOMAIN fs
          /\ ~call'.env.resp.err) => C8_Success(path)]_vars

\* C8 amended: the same, provided the system lets the directory creation,
\* the file creation and the copy succeed.
C8_DownloadWritesBody ==
    [][\A path \in TargetPaths :
         (/\ Invoked
          /\ EndsWithAllowed(call'.fileName)
          /\ ~RegularFileAt(fs, path)
          /\ ~call'.env.resp.err
          /\ LocalOpsSucceed(path)) => C8_Success(path)]_vars

\* the output directory did not exist, and the first invocation created it
\* and the file
C8_Witness ==
    /\ ncalls = 1
    /\ runStart = EmptyFS
    /\ call.notice = "downloaded"
    /\ IsDirAt(fs, S_defaultVersion)
    /\ RegularFileAt(fs, Join(S_defaultVersion, call.fileName))
    /\ fs[Join(S_defaultVersion, call.fileName)].data = Body200

-----------------------------------------------------------------------------
(* C10: the status of a file response is not inspected *)

C10_Written(path) ==
    /\ RegularFileAt(fs', path)
    /\ fs'[path].data = call'.env.resp.body
    /\ call'.ret = "nil"
    /\ call'.notice = "downloaded"

C10_LaterSkipped(path) ==
    (Invoked /\ EndsWithAllowed(call'.fileName) /\ RegularFileAt(fs, path)) =>
        (call'.notice = "skip-exists" /\ requests' = requests)

\* C10 as stated: whenever the GET of a file returns a response, of whatever
\* status, the body is written to the target path, no error is returned and
\* the file is reported as downloaded; every later invocation for that name
\* skips it as already present.
C10_Original ==
    [][\A path \in TargetPaths :
         /\ (Invoked /\ requests' # requests /\ ~call'.env.resp.err)
               => C10_Written(path)
         /\ C10_LaterSkipped(path)]_vars

\* C10 amended: the same, provided the system lets the directory creation,
\* the file creation and the copy succeed.
C10_StatusIgnored ==
    [][\A path \in TargetPaths :
         /\ (Invoked /\ requests' # requests /\ ~call'.env.resp.err
                /\ LocalOpsSucceed(path))
               => C10_Written(path)
         /\ C10_LaterSkipped(path)]_vars

\* the body of a 404 response was stored by the first invocation, and the
\* second invocation for the name skipped it
C10_Witness ==
    /\ ncalls = 2
    /\ call.notice = "skip-exists"
    /\ Len(requests) = 1
    /\ RegularFileAt(fs, Join(call.outDir, call.fileName))
    /\ fs[Join(call.outDir, call.fileName)].data = Body404

-----------------------------------------------------------------------------
(* C1: a listing page that could not be fetched *)

\* the listing page was requested in this run and fetchHTML returned nil
ListingAbsent == requests # <<>> /\ node = NilNode /\ pc \in {"extract", "loop", "exited"}

\* C1: if the fetch yields no document, extractLinks returns an empty
\* sequence without crashing, no file is requested, and the run prints the
\* summary and exits 0.
C1_AbsentListingCompletes ==
    ListingAbsent =>
        /\ links = <<>>
        /\ FileGets = <<>>
        /\ pc = "exited" => (summary /\ exitCode = 0)

-----------------------------------------------------------------------------
(* C2: running the program again *)

\* the file names of the listing the downloader would fetch
ListedNames ==
    LET refs == SelectSeq(extractLinks(listing).links, IsFileRef)
    IN  { refs[k] : k \in { j \in DOMAIN refs : EndsWithAllowed(refs[j]) } }

\* C2 as stated: whatever the first run did, a later run against the same
\* version and directory requests no file, prints the summary and exits 0.
C2_Original ==
    run >= 2 =>
        /\ FileGets = <<>>
        /\ pc = "exited" => (summary /\ exitCode = 0)

\* C2 amended: if, when a later run starts, every allowed file name of the
\* listing is present as a regular file in the output directory, that run
\* requests no file and writes no file; if its listing fetch yields a
\* document it prints the summary and exits 0.
C2_RerunDownloadsNothing ==
    (run >= 2 /\ \A name \in ListedNames : RegularFileAt(runStart, Join(argVersion, name))) =>
        /\ FileGets = <<>>
        /\ WrittenPaths = {}
        /\ (pc = "exited" /\ node # NilNode) => (summary /\ exitCode = 0)

\* the second run has ended after skipping two files, of which one at least
\* was downloaded by the first run
C2_Witness ==
    /\ run = 2
    /\ pc = "exited"
    /\ summary
    /\ exitCode = 0
    /\ Len(invoked) >= 2
    /\ call.notice = "skip-exists"
    /\ requests = <<baseURL>>
    /\ \A name \in ListedNames : RegularFileAt(runStart, Join(argVersion, name))
    /\ \E p \in DOMAIN fs : fs[p] = FileEntry(Body200)

-----------------------------------------------------------------------------
(* C6: the loop over the files *)

\* C6: once the listing has been fetched, downloadFile is invoked once for
\* every filtered file name, in order, whatever the earlier invocations
\* returned, and the run ends with the summary printed and status 0.
C6_LoopRunsToEnd ==
    node # NilNode =>
        /\ pc \in {"loop", "exited"} =>
              /\ files = SelectSeq(extractLinks(listing).links, IsFileRef)
              /\ invoked = SubSeq(files, 1, idx - 1)
              /\ Len(stderr) <= Len(invoked)
        /\ pc = "exited" =>
              /\ invoked = files
              /\ summary
              /\ exitCode = 0

\* a run that ended normally although its first download failed, the file
\* after it having been downloaded
C6_Witness ==
    /\ pc = "exited"
    /\ node # NilNode
    /\ Len(invoked) >= 2
    /\ stderr # <<>>
    /\ call.notice = "downloaded"
    /\ summary
    /\ exitCode = 0

-----------------------------------------------------------------------------
(* C7: the fatal abort at startup *)

Aborted == pc = "exited" /\ exitCode # 0

\* the output directory named after the version is there (no directory has
\* the empty name)
OutDirExists == torVersion # <<>> /\ IsDirAt(fs, Clean(torVersion))

\* the parts of C7 about the startup failure itself: a run whose output
\* directory could not be created has issued no request and printed no
\* summary, and a run that issued a request has its output directory
C7_StartupPart ==
    /\ (pc = "exited" /\ ~OutDirExists) =>
          (requests = <<>> /\ ~summary /\ exitCode # 0)
    /\ requests # <<>> => OutDirExists

\* C7: the failure to create the output directory at startup is the only
\* fatal abort, and it comes first: a run that ends with a non-zero status
\* is one whose output directory could not be created, it has issued no
\* request and printed no summary; a run that issued a request has its
\* output directory.
C7_OnlyStartupAborts ==
    /\ Aborted => (~OutDirExists /\ requests = <<>> /\ ~summary)
    /\ C7_StartupPart

====
